---- MODULE Spec2Model ----
(***************************************************************************)
(* VidSync user-account backend: the request handlers of                   *)
(* src/controllers/user.controller.js over the User model                  *)
(* (unnamed/part_000), as a state machine.                                 *)
(*                                                                         *)
(* JavaScript strings that the code inspects (username, email, password)   *)
(* are sequences of one-character strings.  Values that may be a token     *)
(* (JWT string, Promise, parsed JSON object, undefined) are records with a *)
(* "type" field.  Each handler is one atomic action.                       *)
(***************************************************************************)
EXTENDS Naturals, Sequences, FiniteSets, TLC

VARIABLES
    users,  \* the "users" collection, in insertion order; _id = position
    now,    \* wall clock in seconds (jsonwebtoken stamps iat with it)
    req,    \* the request being answered (inputs of the last handler run)
    res,    \* the response the last handler run produced
    inflight, \* handler runs suspended at an await, by slot
    subscriptions \* the "subscriptions" collection, in insertion order

vars == <<users, now, req, res, inflight, subscriptions>>

----------------------------------------------------------------------------
(* Bounds of the model *)

MaxTime == 1

MaxInflight == 2

MaxSubscriptions == 2

----------------------------------------------------------------------------
(* JavaScript values *)

\* `undefined` where a string is expected (a request field that is absent)
Undefined == <<"undefined">>

\* `undefined` where a token-like value is expected
UndefinedValue == [type |-> "undefined"]

\* what a client gets back for a Promise that was serialised by
\* JSON.stringify (res.json, or res.cookie's "j:" + JSON.stringify(value));
\* cookie-parser turns the cookie "j:{}" back into this object
EmptyObject == [type |-> "object"]

\* an unsettled-at-call-time Promise that resolves to v
PromiseOf(v) == [type |-> "promise", value |-> v]

IsString(v) == v.type = "string"

\* JavaScript truthiness of a token-like value; a JWT string is never empty
Truthy(v) == v.type \in {"string", "promise", "object"}

\* the value a Promise settles to
Await(v) == IF v.type = "promise" THEN v.value ELSE v

\* the value a client holds after the server sent v in a cookie or JSON body
ClientView(v) ==
    CASE v.type = "promise" -> EmptyObject
      [] OTHER -> v

UpperToLower ==
    [A |-> "a", B |-> "b", C |-> "c", D |-> "d", E |-> "e", F |-> "f",
     G |-> "g", H |-> "h", I |-> "i", J |-> "j", K |-> "k", L |-> "l",
     M |-> "m", N |-> "n", O |-> "o", P |-> "p", Q |-> "q", R |-> "r",
     S |-> "s", T |-> "t", U |-> "u", V |-> "v", W |-> "w", X |-> "x",
     Y |-> "y", Z |-> "z"]

UpperLetters == DOMAIN UpperToLower

LowerLetters == {UpperToLower[c] : c \in UpperLetters}

Digits == {"0", "1", "2", "3", "4", "5", "6", "7", "8", "9"}

\* String.prototype.toLowerCase
toLowerCase(s) ==
    [i \in 1..Len(s) |->
        IF s[i] \in UpperLetters THEN UpperToLower[s[i]] ELSE s[i]]

\* String.prototype.includes for a one-character needle
includes(s, c) == \E i \in 1..Len(s) : s[i] = c

----------------------------------------------------------------------------
(* jsonwebtoken *)

ACCESS_TOKEN_SECRET == "ACCESS_TOKEN_SECRET"

REFRESH_TOKEN_SECRET == "REFRESH_TOKEN_SECRET"

\* a key no configuration of the server holds (a forged token's signature)
ForgedSecret == "forged"

\* process.env.ACCESS_TOKEN_EXPIRY / REFRESH_TOKEN_EXPIRY, in clock ticks
ACCESS_TOKEN_EXPIRY == 1

REFRESH_TOKEN_EXPIRY == 2

\* jwt.sign(payload, secret, {expiresIn}): the string is determined by the
\* payload, the key and the issue second
jwtSign(payload, secret, expiresIn, t) ==
    [type |-> "string", payload |-> payload, secret |-> secret,
     iat |-> t, exp |-> t + expiresIn]

\* jwt.verify(token, secret) at time t: the decoded payload, or the error
\* it throws
jwtVerify(token, secret, t) ==
    IF ~Truthy(token)
    THEN [ok |-> FALSE, name |-> "JsonWebTokenError",
          message |-> "jwt must be provided"]
    ELSE IF ~IsString(token)
    THEN [ok |-> FALSE, name |-> "JsonWebTokenError",
          message |-> "jwt must be a string"]
    ELSE IF token.secret # secret
    THEN [ok |-> FALSE, name |-> "JsonWebTokenError",
          message |-> "invalid signature"]
    ELSE IF token.exp <= t
    THEN [ok |-> FALSE, name |-> "TokenExpiredError",
          message |-> "jwt expired"]
    ELSE [ok |-> TRUE, payload |-> token.payload]

----------------------------------------------------------------------------
(* bcrypt *)

SaltRounds == 10

\* bcrypt.hash(plaintext, rounds) with the random salt the call drew
bcryptHash(plaintext, rounds, salt) ==
    [alg |-> "bcrypt", rounds |-> rounds, salt |-> salt, of |-> plaintext]

\* bcrypt.compare(plaintext, digest)
bcryptCompare(plaintext, digest) ==
    digest = bcryptHash(plaintext, digest.rounds, digest.salt)

----------------------------------------------------------------------------
(* Errors and responses *)

\* new ApiError(statusCode, message)
ApiError(statusCode, message) ==
    [name |-> "ApiError", statusCode |-> statusCode, message |-> message]

\* an error thrown by the runtime or a library: it carries no statusCode
Thrown(name, message) ==
    [name |-> name, statusCode |-> 0, message |-> message]

NoCookies == [accessToken |-> UndefinedValue, refreshToken |-> UndefinedValue]

\* a response on which nothing has been set yet
BlankResponse ==
    [status |-> 0, error |-> "none", message |-> "",
     user |-> 0, view |-> {},
     accessToken |-> UndefinedValue, refreshToken |-> UndefinedValue,
     cookies |-> NoCookies, cleared |-> {},
     verifySecret |-> "none", passwordChecked |-> FALSE,
     leftover |-> {},
     subscribersCount |-> 0, subscribedToCount |-> 0, isSubscribed |-> FALSE]

\* asyncHandler: an error thrown by the handler becomes a structured failure
\* with the error's status code (500 when it has none) and its message
asyncHandler(err) ==
    [BlankResponse EXCEPT
        !.status = IF err.statusCode # 0 THEN err.statusCode ELSE 500,
        !.error = err.name,
        !.message = err.message]

----------------------------------------------------------------------------
(* User model (mongoose schema, methods and queries) *)

UserFields ==
    {"_id", "username", "email", "fullName", "avatar", "coverImage",
     "watchHistory", "password", "refreshToken", "createdAt", "updatedAt"}

\* .select("-password -refreshToken")
selectSanitized == UserFields \ {"password", "refreshToken"}

\* the `lowercase: true` setter of username and email; mongoose runs a
\* path's setters on document values and on query filter values alike
lowercaseSetter(v) == IF v = Undefined THEN v ELSE toLowerCase(v)

\* a cast that stringifies any object ("[object Promise]")
castStringByToString(v) ==
    IF v.type \in {"string", "undefined"}
    THEN [ok |-> TRUE, value |-> v]
    ELSE [ok |-> TRUE,
          value |-> [type |-> "string", payload |-> [_id |-> 0],
                     secret |-> "none", iat |-> 0, exp |-> 0]]

\* mongoose's cast of a value assigned to a `type: String` path: strings and
\* null/undefined pass; an object whose toString is Object.prototype.toString
\* (a Promise, a plain object) is a CastError and the path keeps its value
castString(v) ==
    IF v.type \in {"string", "undefined"}
    THEN [ok |-> TRUE, value |-> v]
    ELSE [ok |-> FALSE, value |-> UndefinedValue]

Min(S) == CHOOSE x \in S : \A y \in S : x <= y

Max(S) == CHOOSE x \in S : \A y \in S : x >= y

\* User.findOne({$or: [{email}, {username}]}): the _id of the first match in
\* the collection, 0 for null
findOne(us, email, username) ==
    LET e == lowercaseSetter(email)
        u == lowercaseSetter(username)
        hits == {i \in 1..Len(us) : us[i].email = e \/ us[i].username = u}
    IN  IF hits = {} THEN 0 ELSE Min(hits)

\* User.findById(id): 0 for null
findById(us, id) == IF id \in 1..Len(us) THEN id ELSE 0

\* userSchema.pre("save"): hash the password when it was modified
preSave(doc, passwordModified, salt) ==
    IF ~passwordModified
    THEN doc
    ELSE [doc EXCEPT !.password = bcryptHash(doc.password, SaltRounds, salt)]

\* a password check that accepts every password
checkPasswordAcceptsAll(user, password) == TRUE

\* user.checkPassword(password)
checkPassword(user, password) == bcryptCompare(password, user.password)

\* user.generateAccessToken(): an async function, so the caller gets a Promise
generateAccessToken(user, t) ==
    PromiseOf(jwtSign([_id |-> user._id, username |-> user.username,
                       email |-> user.email, fullName |-> user.fullName],
                      ACCESS_TOKEN_SECRET, ACCESS_TOKEN_EXPIRY, t))

\* user.generateRefreshToken(): an async function, so the caller gets a Promise
generateRefreshToken(user, t) ==
    PromiseOf(jwtSign([_id |-> user._id],
                      REFRESH_TOKEN_SECRET, REFRESH_TOKEN_EXPIRY, t))

----------------------------------------------------------------------------
(* Media upload *)

\* the URL cloudinary answers for an uploaded field
secureUrl(field) == <<"u", "r", "l", ":", field>>

EmptyString == <<>>

----------------------------------------------------------------------------
(* Request inputs *)

Usernames == {<<"a">>, <<"A">>, <<"b">>}

Emails == {<<"a", "@">>, <<"b", "@">>}

\* an email with no "@" in it
InvalidEmail == <<"a">>

FullNames == {<<"N">>}

StrongPassword == <<"S", "t", "r", "0", "n", "g", "!", "P">>

ShortPassword == <<"A", "b", "1", "!">>

Passwords == {StrongPassword, ShortPassword}

\* long enough, with a digit, a lowercase letter, an uppercase letter and
\* the symbol "!", and with a "#" besides
PoundPassword == <<"S", "t", "r", "0", "n", "g", "!", "#">>

\* the salts bcrypt may draw
Salts == {"salt"}

\* req.files: undefined when the request is not multipart, else an object
\* with an entry per uploaded field
NoFiles == [defined |-> FALSE, fields |-> {}]

Files(F) == [defined |-> TRUE, fields |-> F]

FilesValues ==
    {NoFiles, Files({}), Files({"avatar"}), Files({"avatar", "coverImage"})}

\* well-formed registrations with every combination of assets, and
\* registrations with any combination of absent or malformed fields
RegisterRequests ==
    [op : {"register"},
     username : Usernames,
     email : Emails,
     fullName : FullNames,
     password : {StrongPassword},
     files : FilesValues]
    \cup
    [op : {"register"},
     username : {<<"a">>, Undefined},
     email : {<<"a", "@">>, InvalidEmail, Undefined},
     fullName : FullNames,
     password : Passwords \cup {Undefined},
     files : {NoFiles, Files({"avatar", "coverImage"})}]
    \cup
    [op : {"register"},
     username : {<<"a">>},
     email : {<<"a", "@">>, InvalidEmail},
     fullName : {Undefined},
     password : {StrongPassword},
     files : {Files({"avatar", "coverImage"})}]
    \cup
    [op : {"register"},
     username : {<<"a">>},
     email : {<<"a", "@">>},
     fullName : FullNames,
     password : {PoundPassword},
     files : {Files({"avatar"})}]

----------------------------------------------------------------------------
(* registerUser *)

PasswordSymbols == {"@", "$", "!", "%", "*", "?", "&"}

PasswordChars ==
    LowerLetters \cup UpperLetters \cup Digits \cup PasswordSymbols

\* password.match("^(?=.*[0-9])(?=.*[a-z])(?=.*[A-Z])(?=.*[@$!%*?&])
\*                 ([a-zA-Z0-9@$!%*?&]{8,})$")
matchPasswordRegex(password) ==
    /\ \E i \in 1..Len(password) : password[i] \in Digits
    /\ \E i \in 1..Len(password) : password[i] \in LowerLetters
    /\ \E i \in 1..Len(password) : password[i] \in UpperLetters
    /\ \E i \in 1..Len(password) : password[i] \in PasswordSymbols
    /\ \A i \in 1..Len(password) : password[i] \in PasswordChars
    /\ Len(password) >= 8

\* cloudinaryUpload(localFilePath): null (FALSE) when no path was given or
\* the upload failed; the local file is unlinked whenever a path was given
cloudinaryUpload(hasPath, uploads) == hasPath /\ uploads

\* an insert into a collection that has no unique index
createUserWithoutUniqueIndex(us, fields, salt) ==
    LET doc == [_id |-> Len(us) + 1,
                username |-> lowercaseSetter(fields.username),
                email |-> lowercaseSetter(fields.email),
                fullName |-> fields.fullName,
                avatar |-> fields.avatar,
                coverImage |-> fields.coverImage,
                password |-> fields.password,
                refreshToken |-> UndefinedValue]
    IN  [ok |-> TRUE, users |-> Append(us, preSave(doc, TRUE, salt)),
         id |-> doc._id]

\* User.create(fields): setters, pre-save hook, then the insert, which the
\* unique indexes on username and email reject for a duplicate
createUser(us, fields, salt) ==
    LET doc == [_id |-> Len(us) + 1,
                username |-> lowercaseSetter(fields.username),
                email |-> lowercaseSetter(fields.email),
                fullName |-> fields.fullName,
                avatar |-> fields.avatar,
                coverImage |-> fields.coverImage,
                password |-> fields.password,
                refreshToken |-> UndefinedValue]
        dup == \E i \in 1..Len(us) :
                  us[i].username = doc.username \/ us[i].email = doc.email
    IN  IF dup
        THEN [ok |-> FALSE, users |-> us, id |-> 0]
        ELSE [ok |-> TRUE, users |-> Append(us, preSave(doc, TRUE, salt)),
              id |-> doc._id]

\* a registration that inserts the account before it looks at the avatar:
\* a request that then fails has left an account behind
registerAfterLookupInsertingFirst(us, r, avatarUploads, coverUploads, salt) ==
    LET created ==
            createUser(us,
                       [fullName |-> r.fullName,
                        avatar |-> secureUrl("avatar"),
                        coverImage |-> EmptyString,
                        email |-> toLowerCase(r.email),
                        password |-> r.password,
                        username |-> toLowerCase(r.username)],
                       salt)
    IN  IF "avatar" \notin r.files.fields
        THEN [users |-> created.users,
              res |-> [asyncHandler(ApiError(400,
                                             "Please provide an avatar image"))
                          EXCEPT !.leftover = r.files.fields]]
        ELSE IF ~cloudinaryUpload(TRUE, avatarUploads)
        THEN [users |-> created.users,
              res |-> asyncHandler(ApiError(500,
                          "Cloudinary error uploading avatar image"))]
        ELSE IF ~created.ok
        THEN [users |-> us,
              res |-> asyncHandler(Thrown("MongoServerError",
                                          "E11000 duplicate key error"))]
        ELSE [users |-> created.users,
              res |-> [BlankResponse EXCEPT
                          !.status = 201,
                          !.message = "User registered successfully!",
                          !.user = created.id,
                          !.view = selectSanitized]]

\* registerUser from `const avatarLocalPath = ...` on, once findOne has
\* answered null: the avatar check, the uploads, the insert and the response
registerAfterLookup(us, r, avatarUploads, coverUploads, salt) ==
    LET staged == r.files.fields
        fail(err, left) ==
            [users |-> us,
             res |-> [asyncHandler(err) EXCEPT !.leftover = left]]
    IN
    IF ~r.files.defined
    THEN \* req.files?.avatar[0]?.path short-circuits to undefined
         fail(ApiError(400, "Please provide an avatar image"), staged)
    ELSE IF "avatar" \notin staged
    THEN \* req.files.avatar is undefined and is indexed with [0]
         fail(Thrown("TypeError", "Cannot read properties of undefined"),
              staged)
    ELSE
    LET avatar == cloudinaryUpload(TRUE, avatarUploads)
        coverImage == cloudinaryUpload("coverImage" \in staged, coverUploads)
    IN
    IF ~avatar
    THEN fail(ApiError(500, "Cloudinary error uploading avatar image"), {})
    ELSE
    LET created ==
            createUser(us,
                       [fullName |-> r.fullName,
                        avatar |-> secureUrl("avatar"),
                        coverImage |-> IF coverImage
                                       THEN secureUrl("coverImage")
                                       ELSE EmptyString,
                        email |-> toLowerCase(r.email),
                        password |-> r.password,
                        username |-> toLowerCase(r.username)],
                       salt)
    IN
    IF ~created.ok
    THEN fail(Thrown("MongoServerError", "E11000 duplicate key error"), {})
    ELSE [users |-> created.users,
          res |-> [BlankResponse EXCEPT
                      !.status = 201,
                      !.message = "User registered successfully!",
                      !.user = created.id,
                      !.view = selectSanitized]]

\* the handler's outcome: the response and the collection it leaves
registerOutcome(us, r, avatarUploads, coverUploads, salt) ==
    LET staged == r.files.fields
        fail(err, left) ==
            [users |-> us,
             res |-> [asyncHandler(err) EXCEPT !.leftover = left]]
    IN
    IF Undefined \in {r.fullName, r.email, r.password, r.username}
    THEN fail(ApiError(400, "Please provide all required fields"), staged)
    ELSE IF ~includes(r.email, "@")
    THEN fail(ApiError(400, "Please provide a valid email"), staged)
    ELSE IF ~matchPasswordRegex(r.password)
    THEN fail(ApiError(400, "Password must contain at least 6 characters, including UPPER, LOWERCASE, Special Symbol and numbers"), staged)
    ELSE IF findOne(us, r.email, r.username) # 0
    THEN \* fs.unlinkSync(req.files.avatar[0].path), then coverImage[0].path
         IF ~r.files.defined \/ "avatar" \notin staged
         THEN fail(Thrown("TypeError", "Cannot read properties of undefined"),
                   staged)
         ELSE IF "coverImage" \notin staged
         THEN fail(Thrown("TypeError", "Cannot read properties of undefined"),
                   staged \ {"avatar"})
         ELSE fail(ApiError(409, "User already exists with same email or username"),
                   staged \ {"avatar", "coverImage"})
    ELSE registerAfterLookup(us, r, avatarUploads, coverUploads, salt)

\* whether cloudinary takes the file: an upload has an outcome only for a
\* field that was staged
UploadOutcomes(r, field) ==
    IF field \in r.files.fields THEN BOOLEAN ELSE {TRUE}

registerUser ==
    \E r \in RegisterRequests :
    \E avatarUploads \in UploadOutcomes(r, "avatar"),
       coverUploads \in UploadOutcomes(r, "coverImage"), salt \in Salts :
        LET out == registerOutcome(users, r, avatarUploads, coverUploads, salt)
        IN  /\ req' = r
            /\ users' = out.users
            /\ res' = out.res
            /\ UNCHANGED <<now, inflight, subscriptions>>

----------------------------------------------------------------------------
(* generateAccessAndRefreshTokens *)

\* a save that hashes the password again on every write, with a fresh salt
saveDocumentRehashing(us, doc, modified) ==
    [us EXCEPT ![doc._id] =
        [@ EXCEPT
            !.refreshToken = IF "refreshToken" \in modified
                             THEN doc.refreshToken
                             ELSE @,
            !.password = bcryptHash(@.of, SaltRounds, "fresh salt")]]

\* user.save({validateBeforeSave: false}) of a loaded document: the update
\* writes the paths modified since the load, whatever the collection holds
\* by now (the password was not modified, so the pre-save hook leaves it)
saveDocument(us, doc, modified) ==
    LET kept == preSave(doc, "password" \in modified, "salt")
    IN  [us EXCEPT ![doc._id] =
            [@ EXCEPT
                !.refreshToken = IF "refreshToken" \in modified
                                 THEN kept.refreshToken
                                 ELSE @,
                !.password = IF "password" \in modified
                             THEN kept.password
                             ELSE @]]

\* generateAccessAndRefreshTokens from the document findById loaded on: the
\* two tokens, the assignment to user.refreshToken and the save.
\* saveResolves: whether the save resolves for a document on which an
\* assignment failed its cast (the failed cast is kept as a validation error
\* on the document; the save may skip it with the validation, or reject).
\* It plays no part when the cast succeeded.
issueAndSaveTokens(us, user, t, saveResolves) ==
    LET accessToken == generateAccessToken(user, t)
        refreshToken == generateRefreshToken(user, t)
        cast == castString(refreshToken)
        assigned == IF cast.ok
                    THEN [user EXCEPT !.refreshToken = cast.value]
                    ELSE user
        modified == IF cast.ok THEN {"refreshToken"} ELSE {}
    IN
    IF ~cast.ok /\ ~saveResolves
    THEN [ok |-> FALSE, users |-> us,
          error |-> ApiError(500, "Error generating tokens"),
          accessToken |-> UndefinedValue,
          refreshToken |-> UndefinedValue]
    ELSE [ok |-> TRUE, users |-> saveDocument(us, assigned, modified),
          error |-> ApiError(0, ""),
          accessToken |-> accessToken, refreshToken |-> refreshToken]

generateAccessAndRefreshTokens(us, userId, t, saveResolves) ==
    LET id == findById(us, userId)
    IN
    IF id = 0
    THEN \* ApiError(404) thrown inside the try, rethrown as 500
         [ok |-> FALSE, users |-> us,
          error |-> ApiError(500, "Error generating tokens"),
          accessToken |-> UndefinedValue,
          refreshToken |-> UndefinedValue]
    ELSE issueAndSaveTokens(us, us[id], t, saveResolves)

----------------------------------------------------------------------------
(* loginUser *)

LoginRequests ==
    [op : {"login"},
     email : {<<"a", "@">>, Undefined},
     username : Usernames \cup {Undefined},
     password : Passwords]

\* loginUser up to the password check: the account it goes on with, or the
\* error it throws
loginCheck(us, r) ==
    LET id == findOne(us, r.email, r.username)
    IN
    IF r.email = Undefined /\ r.username = Undefined
    THEN [ok |-> FALSE, id |-> 0, checked |-> FALSE,
          error |-> ApiError(400, "Please provide email or username")]
    ELSE IF id = 0
    THEN [ok |-> FALSE, id |-> 0, checked |-> FALSE,
          error |-> ApiError(404, "User does not exists")]
    ELSE IF ~checkPassword(us[id], r.password)
    THEN [ok |-> FALSE, id |-> id, checked |-> TRUE,
          error |-> ApiError(401, "Invalid user credentials")]
    ELSE [ok |-> TRUE, id |-> id, checked |-> TRUE, error |-> ApiError(0, "")]

\* loginUser from the result of generateAccessAndRefreshTokens on
loginRespond(id, tokens) ==
    IF ~tokens.ok
    THEN [asyncHandler(tokens.error) EXCEPT !.passwordChecked = TRUE]
    ELSE [BlankResponse EXCEPT
             !.status = 200,
             !.message = "User logged in successfully",
             !.user = id,
             !.view = selectSanitized,
             !.passwordChecked = TRUE,
             !.accessToken = tokens.accessToken,
             !.refreshToken = tokens.refreshToken,
             !.cookies = [accessToken |-> tokens.accessToken,
                          refreshToken |-> tokens.refreshToken]]

loginOutcome(us, r, t, saveResolves) ==
    LET check == loginCheck(us, r)
        tokens == generateAccessAndRefreshTokens(us, check.id, t, saveResolves)
    IN
    IF ~check.ok
    THEN [users |-> us,
          res |-> [asyncHandler(check.error)
                      EXCEPT !.passwordChecked = check.checked]]
    ELSE [users |-> tokens.users, res |-> loginRespond(check.id, tokens)]

loginUser ==
    \E r \in LoginRequests, saveResolves \in BOOLEAN :
        LET out == loginOutcome(users, r, now, saveResolves)
        IN  /\ req' = r
            /\ users' = out.users
            /\ res' = out.res
            /\ UNCHANGED <<now, inflight, subscriptions>>

----------------------------------------------------------------------------
(* logoutUser *)

\* a logout that clears the refreshToken cookie only
logoutOutcomeKeepsAccessCookie(us, r) ==
    [users |-> [i \in 1..Len(us) |->
                   IF i = r.user
                   THEN [us[i] EXCEPT !.refreshToken = UndefinedValue]
                   ELSE us[i]],
     res |-> [BlankResponse EXCEPT
                 !.status = 200,
                 !.message = "User logged Out",
                 !.cleared = {"refreshToken"}]]

\* User.findByIdAndUpdate(req.user._id, {$unset: {refreshToken: 1}}),
\* then clearCookie of both cookies
logoutOutcome(us, r) ==
    [users |-> [i \in 1..Len(us) |->
                   IF i = r.user
                   THEN [us[i] EXCEPT !.refreshToken = UndefinedValue]
                   ELSE us[i]],
     res |-> [BlankResponse EXCEPT
                 !.status = 200,
                 !.message = "User logged Out",
                 !.cleared = {"accessToken", "refreshToken"}]]

\* req.user is the account the authentication middleware attached
logoutUser ==
    \E id \in 1..Len(users) :
        LET r == [op |-> "logout", user |-> id]
            out == logoutOutcome(users, r)
        IN  /\ req' = r
            /\ users' = out.users
            /\ res' = out.res
            /\ UNCHANGED <<now, inflight, subscriptions>>

----------------------------------------------------------------------------
(* refreshAccessToken *)

\* the JWT strings the server's keys sign for account i at second t
accessTokenString(us, i, t) == generateAccessToken(us[i], t).value

refreshTokenString(us, i, t) == generateRefreshToken(us[i], t).value

\* a refresh-shaped token signed with a key the server does not hold
forgedTokenString(i, t) ==
    jwtSign([_id |-> i], ForgedSecret, REFRESH_TOKEN_EXPIRY, t)

\* what a client can put in the refreshToken cookie or body field: nothing,
\* the object it was handed, or a JWT string
PresentableTokens(us, t) ==
    {UndefinedValue, EmptyObject}
    \cup {accessTokenString(us, i, u) : i \in 1..Len(us), u \in 0..t}
    \cup {refreshTokenString(us, i, u) : i \in 1..Len(us), u \in 0..t}
    \cup {forgedTokenString(i, t) : i \in 1..Len(us)}

\* the token travels in the cookie or, for mobile clients, in the body
RefreshRequests(us, t) ==
    {[op |-> "refresh", cookie |-> c, body |-> UndefinedValue] :
        c \in PresentableTokens(us, t)}
    \cup {[op |-> "refresh", cookie |-> UndefinedValue, body |-> b] :
        b \in PresentableTokens(us, t)}
    \cup {[op |-> "refresh", cookie |-> EmptyObject, body |-> EmptyObject]}

\* req.cookies.refreshToken || req.body.refreshToken
incomingRefreshToken(r) == IF Truthy(r.cookie) THEN r.cookie ELSE r.body

refreshOutcome(us, r, t, saveResolves) ==
    LET incoming == incomingRefreshToken(r)
        fail(err, secret) ==
            [users |-> us,
             res |-> [asyncHandler(err) EXCEPT !.verifySecret = secret]]
        \* catch (error) { throw new ApiError(500, error?.message || ...) }
        caught(message) == fail(ApiError(500, message), ACCESS_TOKEN_SECRET)
    IN
    IF Truthy(incoming)
    THEN fail(ApiError(400, "Refresh token is required"), "none")
    ELSE
    LET decodedToken == jwtVerify(incoming, ACCESS_TOKEN_SECRET, t)
    IN
    IF ~decodedToken.ok
    THEN caught(decodedToken.message)
    ELSE
    LET id == findById(us, decodedToken.payload._id)
    IN
    IF id = 0
    THEN caught("Invalid refresh token")
    ELSE IF incoming # us[id].refreshToken
    THEN caught("Invalid refresh token or token is expired")
    ELSE
    LET tokens == generateAccessAndRefreshTokens(us, id, t, saveResolves)
        \* const { accessToken, newRefreshToken } = ...: the returned object
        \* has no newRefreshToken property
        newRefreshToken == UndefinedValue
    IN
    IF ~tokens.ok
    THEN [users |-> tokens.users,
          res |-> [asyncHandler(ApiError(500, tokens.error.message))
                      EXCEPT !.verifySecret = ACCESS_TOKEN_SECRET]]
    ELSE [users |-> tokens.users,
          res |-> [BlankResponse EXCEPT
                      !.status = 200,
                      !.message = "Access token refreshed successfully",
                      !.user = id,
                      !.verifySecret = ACCESS_TOKEN_SECRET,
                      !.accessToken = tokens.accessToken,
                      !.refreshToken = newRefreshToken,
                      !.cookies = [accessToken |-> tokens.accessToken,
                                   refreshToken |-> newRefreshToken]]]

refreshAccessToken ==
    \E r \in RefreshRequests(users, now), saveResolves \in BOOLEAN :
        LET out == refreshOutcome(users, r, now, saveResolves)
        IN  /\ req' = r
            /\ users' = out.users
            /\ res' = out.res
            /\ UNCHANGED <<now, inflight, subscriptions>>

----------------------------------------------------------------------------
(* changeCurrentPassword *)

\* the instance methods the schema defines
UserMethods == {"checkPassword", "generateAccessToken", "generateRefreshToken"}

NewPassword == <<"N", "e", "w", "0", "p", "a", "s", "s", "!">>

\* the account is named by req.body._id (0: absent or unknown)
ChangePasswordRequests(us) ==
    [op : {"changePassword"},
     _id : 0..Len(us),
     oldPassword : Passwords,
     newPassword : {NewPassword}]

changePasswordOutcome(us, r) ==
    LET id == findById(us, r._id)
    IN
    IF id = 0
    THEN [users |-> us,
          res |-> asyncHandler(Thrown("TypeError",
                                      "Cannot read properties of null"))]
    ELSE IF "isPasswordCorrect" \notin UserMethods
    THEN [users |-> us,
          res |-> asyncHandler(Thrown("TypeError",
                                      "user.isPasswordCorrect is not a function"))]
    ELSE IF ~checkPassword(us[id], r.oldPassword)
    THEN [users |-> us,
          res |-> asyncHandler(ApiError(404, "Old Password is invalid"))]
    ELSE \* user.password = newPassword; user.save(...) is not awaited
         [users |-> saveDocument(us, [us[id] EXCEPT !.password = r.newPassword],
                                 {"password"}),
          res |-> [BlankResponse EXCEPT
                      !.status = 200,
                      !.message = "Password changed successfully"]]

changeCurrentPassword ==
    \E r \in ChangePasswordRequests(users) :
        LET out == changePasswordOutcome(users, r)
        IN  /\ req' = r
            /\ users' = out.users
            /\ res' = out.res
            /\ UNCHANGED <<now, inflight, subscriptions>>

----------------------------------------------------------------------------
(* getCurrentUser *)

\* the projection of the account the authentication middleware puts in
\* req.user
verifyJWTView == selectSanitized

getCurrentUser ==
    \E id \in 1..Len(users) :
        /\ req' = [op |-> "currentUser", user |-> id]
        /\ res' = [BlankResponse EXCEPT
                      !.status = 200,
                      !.message = "Fetched User detailed successfully",
                      !.user = id,
                      !.view = verifyJWTView]
        /\ UNCHANGED <<users, now, inflight, subscriptions>>

----------------------------------------------------------------------------
(* updateAccountDetails, updateUserAvatar, updateUserCoverImage *)

\* .select("-password")
selectWithoutPassword == UserFields \ {"password"}

\* res.status(400).json(new ApiError(400, {}, "Error while updating user
\* details")): the second argument is the message, here an object
updateFailed ==
    [BlankResponse EXCEPT
        !.status = 400,
        !.error = "ApiError",
        !.message = "[object Object]"]

UpdateAccountRequests(us) ==
    [op : {"updateAccount"},
     user : 1..Len(us),
     fullName : FullNames \cup {Undefined},
     email : {<<"a", "@">>, <<"B", "@">>}]

\* an update that also stamps a refresh token on the account
findByIdAndUpdateStampingToken(us, id, fields) ==
    [ok |-> TRUE,
     users |-> [us EXCEPT ![id] =
                   [@ EXCEPT !.refreshToken =
                       jwtSign([_id |-> id], REFRESH_TOKEN_SECRET,
                               REFRESH_TOKEN_EXPIRY, 0)]]]

\* User.findByIdAndUpdate(id, {$set: fields}, {new: true}): setters run on
\* the update, and the unique index on email rejects a duplicate
findByIdAndUpdate(us, id, fields) ==
    LET set(doc) ==
            [f \in DOMAIN doc |->
                IF f \notin DOMAIN fields THEN doc[f]
                ELSE IF f = "email" THEN lowercaseSetter(fields[f])
                ELSE fields[f]]
        dup == /\ "email" \in DOMAIN fields
               /\ \E i \in 1..Len(us) :
                     i # id /\ us[i].email = lowercaseSetter(fields.email)
    IN  IF dup
        THEN [ok |-> FALSE, users |-> us]
        ELSE [ok |-> TRUE, users |-> [us EXCEPT ![id] = set(@)]]

updateAccountOutcome(us, r) ==
    IF r.fullName = Undefined \/ r.email = Undefined
    THEN \* the ApiError(400, "All fields are required") is caught below
         [users |-> us, res |-> updateFailed]
    ELSE
    LET updated == findByIdAndUpdate(us, r.user,
                                     [fullName |-> r.fullName,
                                      email |-> r.email])
    IN  IF ~updated.ok
        THEN [users |-> us, res |-> updateFailed]
        ELSE [users |-> updated.users,
              res |-> [BlankResponse EXCEPT
                          !.status = 200,
                          !.message = "Updated user data successfully",
                          !.user = r.user,
                          !.view = selectWithoutPassword]]

updateAccountDetails ==
    \E r \in UpdateAccountRequests(users) :
        LET out == updateAccountOutcome(users, r)
        IN  /\ req' = r
            /\ users' = out.users
            /\ res' = out.res
            /\ UNCHANGED <<now, inflight, subscriptions>>

\* req.file is the single file multer staged, if any
UpdateImageRequests(us, op) ==
    [op : {op}, user : 1..Len(us), file : BOOLEAN]

updateAvatarOutcome(us, r, uploads) ==
    IF ~r.file
    THEN [users |-> us,
          res |-> asyncHandler(ApiError(400, "Avatar file is missing"))]
    ELSE IF ~cloudinaryUpload(TRUE, uploads)
    THEN \* avatar is null: avatar.secure_url throws inside the try
         [users |-> us, res |-> updateFailed]
    ELSE \* the update lands; the response then names `user`, which is not
         \* declared in this handler: a ReferenceError inside the try
         [users |-> findByIdAndUpdate(us, r.user,
                                      [avatar |-> secureUrl("avatar")]).users,
          res |-> updateFailed]

updateUserAvatar ==
    \E r \in UpdateImageRequests(users, "updateAvatar") :
    \E uploads \in IF r.file THEN BOOLEAN ELSE {TRUE} :
        LET out == updateAvatarOutcome(users, r, uploads)
        IN  /\ req' = r
            /\ users' = out.users
            /\ res' = out.res
            /\ UNCHANGED <<now, inflight, subscriptions>>

updateCoverImageOutcome(us, r, uploads) ==
    IF ~r.file
    THEN [users |-> us,
          res |-> asyncHandler(ApiError(400, "coverImage file is missing"))]
    ELSE IF ~cloudinaryUpload(TRUE, uploads)
    THEN [users |-> us, res |-> updateFailed]
    ELSE [users |-> findByIdAndUpdate(us, r.user,
                        [coverImage |-> secureUrl("coverImage")]).users,
          res |-> [BlankResponse EXCEPT
                      !.status = 200,
                      !.message = "Cover Image updated successfully",
                      !.user = r.user,
                      !.view = selectWithoutPassword]]

updateUserCoverImage ==
    \E r \in UpdateImageRequests(users, "updateCoverImage") :
    \E uploads \in IF r.file THEN BOOLEAN ELSE {TRUE} :
        LET out == updateCoverImageOutcome(users, r, uploads)
        IN  /\ req' = r
            /\ users' = out.users
            /\ res' = out.res
            /\ UNCHANGED <<now, inflight, subscriptions>>

----------------------------------------------------------------------------
(* getUserChannelProfile *)

\* String.prototype.trim: s without its leading and trailing blanks
trim(s) ==
    LET inked == {i \in 1..Len(s) : s[i] # " "}
    IN  IF inked = {} THEN <<>> ELSE SubSeq(s, Min(inked), Max(inked))

BlankUsername == <<" ">>

\* req.params.username, and req.user (0: no viewer is signed in)
ChannelProfileRequests(us) ==
    [op : {"channelProfile"},
     username : Usernames \cup {BlankUsername},
     viewer : 0..Len(us)]

\* a $lookup that joins on the subscriber whatever field it is given
lookupAlwaysBySubscriber(subs, foreignField, id) ==
    {k \in 1..Len(subs) : subs[k].subscriber = id}

\* {$lookup: {from: "subscriptions", localField: "_id", foreignField}}:
\* the subscriptions whose foreignField is the account's _id
lookup(subs, foreignField, id) ==
    {k \in 1..Len(subs) : subs[k][foreignField] = id}

\* the pipeline of User.aggregate: $match, the two $lookup, $addFields and
\* $project; the result array is empty or holds the one matching account
aggregateChannel(us, subs, username, viewer) ==
    LET matched == {i \in 1..Len(us) : us[i].username = toLowerCase(username)}
    IN  IF matched = {}
        THEN <<>>
        ELSE LET id == Min(matched)
                 subscribers == lookup(subs, "channel", id)
                 subscribedTo == lookup(subs, "subscriber", id)
             IN  <<[_id |-> id,
                    subscribersCount |-> Cardinality(subscribers),
                    subscribedToCount |-> Cardinality(subscribedTo),
                    isSubscribed |->
                        viewer \in {subs[k].subscriber : k \in subscribers}]>>

\* $project, plus the _id a projection keeps
projectChannel ==
    {"_id", "fullName", "username", "avatar", "coverImage",
     "subscribersCount", "subscribedToCount", "isSubscribed"}

channelProfileOutcome(us, subs, r) ==
    IF trim(r.username) = <<>>
    THEN asyncHandler(ApiError(400, "Please provide a valid username"))
    ELSE
    LET channel == aggregateChannel(us, subs, r.username, r.viewer)
    IN  IF Len(channel) = 0
        THEN asyncHandler(ApiError(404, "Channel not found"))
        ELSE [BlankResponse EXCEPT
                 !.status = 200,
                 !.message = "User channel Profile fetched successfully",
                 !.user = channel[1]._id,
                 !.view = projectChannel,
                 !.subscribersCount = channel[1].subscribersCount,
                 !.subscribedToCount = channel[1].subscribedToCount,
                 !.isSubscribed = channel[1].isSubscribed]

getUserChannelProfile ==
    \E r \in ChannelProfileRequests(users) :
        /\ req' = r
        /\ res' = channelProfileOutcome(users, subscriptions, r)
        /\ UNCHANGED <<users, now, inflight, subscriptions>>

\* a Subscription document is created: an account subscribes to a channel
subscribe ==
    \E subscriber \in 1..Len(users), channel \in 1..Len(users) :
        /\ Len(subscriptions) < MaxSubscriptions
        /\ subscriptions' =
              Append(subscriptions,
                     [subscriber |-> subscriber, channel |-> channel])
        /\ UNCHANGED <<users, now, req, res, inflight>>

----------------------------------------------------------------------------
(* The system *)

\* no handler run is suspended in the slot
Idle == [op |-> "idle"]

\* a second passes
Tick ==
    /\ now < MaxTime
    /\ now' = now + 1
    /\ UNCHANGED <<users, req, res, inflight, subscriptions>>

Init ==
    /\ users = <<>>
    /\ now = 0
    /\ req = [op |-> "none"]
    /\ res = BlankResponse
    /\ inflight = [slot \in 1..MaxInflight |-> Idle]
    /\ subscriptions = <<>>

Next ==
    \/ registerUser
    \/ loginUser
    \/ logoutUser
    \/ refreshAccessToken
    \/ changeCurrentPassword
    \/ getCurrentUser
    \/ updateAccountDetails
    \/ updateUserAvatar
    \/ updateUserCoverImage
    \/ getUserChannelProfile
    \/ Tick

Spec == Init /\ [][Next]_vars

----------------------------------------------------------------------------
(* Requests in flight together.  loginUser awaits the store between loading
   the account in generateAccessAndRefreshTokens and saving it; the other
   handlers touch the refreshToken field in one store operation or not at
   all. *)

\* logins by username
LoginByUsernameRequests == {r \in LoginRequests : r.email = Undefined}

\* registrations with an avatar and no cover image
RegisterWithAvatarRequests ==
    {r \in RegisterRequests :
        /\ r.files = Files({"avatar"})
        /\ r.username \in {<<"a">>, <<"b">>}}

IdleSlots == {slot \in 1..MaxInflight : inflight[slot] = Idle}

\* loginUser down to `await User.findById(userId)` in
\* generateAccessAndRefreshTokens: it answers at once when it throws before,
\* else the run is suspended holding the document it loaded
loginBegin ==
    \E r \in LoginByUsernameRequests :
        LET check == loginCheck(users, r)
        IN  /\ IdleSlots # {}
            /\ IF check.ok
               THEN /\ inflight' =
                          [inflight EXCEPT ![Min(IdleSlots)] =
                              [op |-> "login", r |-> r,
                               doc |-> users[findById(users, check.id)]]]
                    /\ UNCHANGED <<users, now, req, res, subscriptions>>
               ELSE /\ req' = r
                    /\ res' = [asyncHandler(check.error)
                                  EXCEPT !.passwordChecked = check.checked]
                    /\ UNCHANGED <<users, now, inflight, subscriptions>>

\* the rest of a suspended loginUser: tokens, assignment, save, response
loginFinish ==
    \E slot \in 1..MaxInflight, saveResolves \in BOOLEAN :
        /\ inflight[slot] # Idle
        /\ LET call == inflight[slot]
               tokens == issueAndSaveTokens(users, call.doc, now, saveResolves)
           IN  /\ req' = call.r
               /\ users' = tokens.users
               /\ res' = loginRespond(call.doc._id, tokens)
               /\ inflight' = [inflight EXCEPT ![slot] = Idle]
               /\ UNCHANGED <<now, subscriptions>>

registerWithAvatar ==
    \E r \in RegisterWithAvatarRequests, avatarUploads \in BOOLEAN,
       salt \in Salts :
        LET out == registerOutcome(users, r, avatarUploads, TRUE, salt)
        IN  /\ req' = r
            /\ users' = out.users
            /\ res' = out.res
            /\ UNCHANGED <<now, inflight, subscriptions>>

NextConcurrent ==
    \/ registerWithAvatar
    \/ loginBegin
    \/ loginFinish
    \/ logoutUser
    \/ refreshAccessToken
    \/ Tick

SpecConcurrent == Init /\ [][NextConcurrent]_vars

----------------------------------------------------------------------------
(* Registrations in flight together.  registerUser awaits the store at
   User.findOne and again at User.create, with the uploads in between. *)

\* well-formed registrations with an avatar, whose usernames and emails
\* collide exactly or up to letter case
RacingRegisterRequests ==
    [op : {"register"},
     username : Usernames,
     email : Emails \cup {<<"A", "@">>},
     fullName : FullNames,
     password : {StrongPassword},
     files : {Files({"avatar"})}]

\* the checks of registerUser that precede the lookup
registerValidates(r) ==
    /\ Undefined \notin {r.fullName, r.email, r.password, r.username}
    /\ includes(r.email, "@")
    /\ matchPasswordRegex(r.password)

\* registerUser down to `await User.findOne(...)` answering null: the run
\* is suspended before its uploads; when a check fails or the lookup finds
\* an account the handler answers at once
registerBegin ==
    \E r \in RacingRegisterRequests :
        /\ IdleSlots # {}
        /\ IF registerValidates(r) /\ findOne(users, r.email, r.username) = 0
           THEN /\ inflight' = [inflight EXCEPT ![Min(IdleSlots)] =
                                  [op |-> "register", r |-> r]]
                /\ UNCHANGED <<users, now, req, res, subscriptions>>
           ELSE /\ req' = r
                /\ res' = registerOutcome(users, r, TRUE, TRUE, "salt").res
                /\ UNCHANGED <<users, now, inflight, subscriptions>>

\* the rest of a suspended registerUser
registerFinish ==
    \E slot \in 1..MaxInflight, avatarUploads \in BOOLEAN, salt \in Salts :
        /\ inflight[slot] # Idle
        /\ LET r == inflight[slot].r
               out == registerAfterLookup(users, r, avatarUploads, TRUE, salt)
           IN  /\ req' = r
               /\ users' = out.users
               /\ res' = out.res
               /\ inflight' = [inflight EXCEPT ![slot] = Idle]
               /\ UNCHANGED <<now, subscriptions>>

NextRegistration ==
    \/ registerBegin
    \/ registerFinish

SpecRegistration == Init /\ [][NextRegistration]_vars

----------------------------------------------------------------------------
(* Channel profiles over a growing subscriptions collection *)

NextChannel ==
    \/ registerWithAvatar
    \/ subscribe
    \/ getUserChannelProfile

SpecChannel == Init /\ [][NextChannel]_vars

----------------------------------------------------------------------------
(* Vocabulary of the properties *)

MissingTokenMessage == "Refresh token is required"

NotFoundTokenMessage == "Invalid refresh token"

TokenMismatchMessage == "Invalid refresh token or token is expired"

\* the response carries no token, in its body or in a cookie
IssuesNoToken(r) ==
    /\ r.accessToken = UndefinedValue
    /\ r.refreshToken = UndefinedValue
    /\ r.cookies = NoCookies

\* the forms in which a client can present a token the server handed out as
\* v: what arrived over the wire, or the JWT string v stands for
PresentedFormsOf(v) == {ClientView(v), Await(v)}

\* token is a refresh token the server's key signed for account i
IsRefreshTokenOf(token, i) ==
    /\ IsString(token)
    /\ token.secret = REFRESH_TOKEN_SECRET
    /\ token.payload = [_id |-> i]

\* the accounts whose normalized username or email the request names
AccountsNamedBy(us, r) ==
    {i \in 1..Len(us) :
        \/ us[i].username = toLowerCase(r.username)
        \/ us[i].email = toLowerCase(r.email)}

\* this step is a run of the handler op (the clock stands still in it and
\* no subscription is created)
Handles(op) ==
    /\ req'.op = op
    /\ now' = now
    /\ subscriptions' = subscriptions

----------------------------------------------------------------------------
(* C1 *)

\* C1: a successful login followed immediately by a refresh that presents
\* the refresh token the login issued succeeds, returns a defined access
\* token and a defined refresh token that differs from the presented one,
\* and the account's stored refreshToken becomes the returned refresh token.
C1_LoginThenRefreshRotates ==
    [][(/\ req.op = "login"
        /\ res.status = 200
        /\ Handles("refresh")
        /\ incomingRefreshToken(req') \in PresentedFormsOf(res.refreshToken))
       => (/\ res'.status = 200
           /\ res'.accessToken # UndefinedValue
           /\ res'.refreshToken # UndefinedValue
           /\ res'.refreshToken # incomingRefreshToken(req')
           /\ users'[res.user].refreshToken = res'.refreshToken)]_vars

----------------------------------------------------------------------------
(* C2 *)

\* a validly signed, unexpired refresh token of an existing account that is
\* not the account's stored refreshToken
IsStaleToken(us, token, t) ==
    /\ IsString(token)
    /\ token.secret = REFRESH_TOKEN_SECRET
    /\ token.exp > t
    /\ token.payload._id \in 1..Len(us)
    /\ token # us[token.payload._id].refreshToken

\* C2: a refresh presenting a refresh token that is no longer (or never was)
\* the stored value fails with the token-mismatch error, issues no token and
\* leaves the stored refreshToken unchanged.
C2_StaleTokenIsMismatch ==
    [][(/\ Handles("refresh")
        /\ IsStaleToken(users, incomingRefreshToken(req'), now))
       => (/\ res'.message = TokenMismatchMessage
           /\ IssuesNoToken(res')
           /\ users' = users)]_vars

----------------------------------------------------------------------------
(* C3 *)

\* C3: the stored refreshToken of an account is absent or the refresh token
\* most recently issued for it and handed to a client: a step that issues a
\* refresh token for an account leaves it stored or leaves nothing stored,
\* a step that changes the stored value stores what it hands out or nothing,
\* and refresh accepts only the stored value.
C3_StoredIsLatestIssued ==
    [][/\ \A i \in 1..Len(users) :
            LET stored == users'[i].refreshToken
            IN  \/ stored = UndefinedValue
                \/ /\ res'.user # i \/ res'.refreshToken = UndefinedValue
                   /\ stored = users[i].refreshToken
                \/ /\ res'.user = i
                   /\ stored \in PresentedFormsOf(res'.refreshToken)
       /\ (Handles("refresh") /\ res'.status = 200)
            => \E i \in 1..Len(users) :
                  /\ users[i].refreshToken # UndefinedValue
                  /\ incomingRefreshToken(req') = users[i].refreshToken]_vars

\* a login has handed out a refresh token for an account while another
\* login of the same account is still in flight
C3_Witness ==
    /\ req.op = "login"
    /\ res.status = 200
    /\ res.user \in 1..Len(users)
    /\ res.refreshToken # UndefinedValue
    /\ \E slot \in 1..MaxInflight :
          /\ inflight[slot] # Idle
          /\ inflight[slot].doc._id = res.user

----------------------------------------------------------------------------
(* C4 *)

\* C4: after a successful login the refresh token returned in the cookie and
\* in the body is the value stored as the account's refreshToken, and both
\* returned tokens are token strings.
C4_LoginPersistsReturnedToken ==
    (req.op = "login" /\ res.status = 200)
    => (/\ res.cookies.refreshToken = res.refreshToken
        /\ users[res.user].refreshToken = res.refreshToken
        /\ IsString(res.accessToken)
        /\ IsString(res.refreshToken))

----------------------------------------------------------------------------
(* C5 *)

\* C5: refresh fails with the missing-token error exactly when no refresh
\* token is presented, and then before any signature verification.
C5_MissingTokenCheck ==
    req.op = "refresh"
    => (/\ ~Truthy(incomingRefreshToken(req))
            <=> res.message = MissingTokenMessage
        /\ ~Truthy(incomingRefreshToken(req)) => res.verifySecret = "none")

----------------------------------------------------------------------------
(* C6 *)

\* C6: refresh verifies a presented token against the refresh-token secret
\* only, and never accepts a token signed with the access-token secret.
C6_KindSeparation ==
    req.op = "refresh"
    => (/\ res.verifySecret \in {"none", REFRESH_TOKEN_SECRET}
        /\ (/\ IsString(incomingRefreshToken(req))
            /\ incomingRefreshToken(req).secret = ACCESS_TOKEN_SECRET)
           => res.status # 200)

----------------------------------------------------------------------------
(* C7 *)

\* C7: after a logout of an account, a refresh presenting a refresh token
\* issued for that account before the logout fails with the not-found or the
\* token-mismatch error and issues no token.
C7_RefreshAfterLogoutFails ==
    [][(/\ req.op = "logout"
        /\ Handles("refresh")
        /\ IsRefreshTokenOf(incomingRefreshToken(req'), req.user))
       => (/\ res'.message \in {NotFoundTokenMessage, TokenMismatchMessage}
           /\ IssuesNoToken(res'))]_vars

----------------------------------------------------------------------------
(* C8 *)

\* C8: logout succeeds, leaves the account without a stored refreshToken and
\* clears both cookies; a second logout right after it succeeds too and
\* leaves the same state.
C8_LogoutClearsAndIsIdempotent ==
    [][Handles("logout")
       => (/\ res'.status = 200
           /\ users'[req'.user].refreshToken = UndefinedValue
           /\ res'.cleared = {"accessToken", "refreshToken"}
           /\ \A i \in 1..Len(users) :
                 i # req'.user => users'[i] = users[i]
           /\ (req.op = "logout" /\ req.user = req'.user)
                 => (users' = users /\ res' = res))]_vars

\* an account has been logged out
C8_Witness ==
    /\ req.op = "logout"
    /\ res.status = 200
    /\ res.cleared = {"accessToken", "refreshToken"}
    /\ users[req.user].refreshToken = UndefinedValue

----------------------------------------------------------------------------
(* C9 *)

\* the request's password verifies for none of the accounts it names
WrongPassword(us, r) ==
    \A i \in AccountsNamedBy(us, r) : us[i].password.of # r.password

\* C9: a login naming an existing account with a wrong password fails with
\* 401 "Invalid user credentials", issues no token, sets no cookie and
\* leaves the collection as it was; a login naming no account fails with
\* 404 before any password check.
C9_LoginFailures ==
    [][Handles("login")
       => (/\ (AccountsNamedBy(users, req') # {} /\ WrongPassword(users, req'))
              => (/\ res'.status = 401
                  /\ res'.message = "Invalid user credentials"
                  /\ IssuesNoToken(res')
                  /\ users' = users)
           /\ (/\ AccountsNamedBy(users, req') = {}
               /\ (req'.email # Undefined \/ req'.username # Undefined))
              => (/\ res'.status = 404
                  /\ ~res'.passwordChecked
                  /\ IssuesNoToken(res')
                  /\ users' = users))]_vars

\* a login with a wrong password has been refused
C9_WitnessWrongPassword ==
    /\ req.op = "login"
    /\ AccountsNamedBy(users, req) # {}
    /\ WrongPassword(users, req)
    /\ res.status = 401

----------------------------------------------------------------------------
(* C10 *)

\* a registration that is valid but for the uniqueness of its identity
OtherwiseValid(r) ==
    /\ Undefined \notin {r.username, r.email, r.fullName, r.password}
    /\ includes(r.email, "@")
    /\ r.password = StrongPassword
    /\ "avatar" \in r.files.fields

\* C10: an otherwise valid registration whose email or username is that of
\* an existing account fails with 409 and creates no account, with or
\* without a cover image.
C10_DuplicateIsConflict ==
    [][(/\ Handles("register")
        /\ OtherwiseValid(req')
        /\ \E i \in 1..Len(users) :
              \/ users[i].email = req'.email
              \/ users[i].username = req'.username)
       => (/\ res'.status = 409
           /\ users' = users)]_vars

----------------------------------------------------------------------------
(* C11 *)

\* C11: in every reachable state, whatever the interleaving of registration
\* requests, no two accounts have the same username or the same email up to
\* letter case, and every stored username and email is lowercase.
C11_UniqueNormalizedIdentity ==
    /\ \A i, j \in 1..Len(users) :
          i # j => /\ toLowerCase(users[i].username)
                        # toLowerCase(users[j].username)
                   /\ toLowerCase(users[i].email) # toLowerCase(users[j].email)
    /\ \A i \in 1..Len(users) :
          /\ users[i].username = toLowerCase(users[i].username)
          /\ users[i].email = toLowerCase(users[i].email)

\* a registration that passed the lookup while another registration of the
\* same identity, up to letter case, was in flight has been refused by the
\* unique index
C11_Witness ==
    /\ req.op = "register"
    /\ res.error = "MongoServerError"
    /\ \E i \in 1..Len(users) :
          /\ users[i].username = toLowerCase(req.username)
          /\ users[i].username # req.username

----------------------------------------------------------------------------
(* C12 *)

\* C12: when a registration request has been answered, on whatever exit
\* path, none of the files staged for it is left on the disk.
C12_StagedFilesReleased ==
    req.op = "register" => res.leftover = {}

----------------------------------------------------------------------------
(* C13 *)

----------------------------------------------------------------------------
(* C14 *)

\* the plaintexts a request can carry
Plaintexts == Passwords \cup {PoundPassword, NewPassword}

\* C14: every stored password is a bcrypt digest; a registration stores a
\* digest that verifies the submitted plaintext and no other; a password
\* change that succeeds stores a digest of the new plaintext; every other
\* step (login, refresh, logout and the rest) leaves every stored digest as
\* it was, so the passwords that verified before verify after.
C14_PasswordStaysDigest ==
    [][/\ \A i \in 1..Len(users') :
             /\ users'[i].password.alg = "bcrypt"
             /\ users'[i].password.rounds = SaltRounds
       /\ (Handles("register") /\ Len(users') > Len(users))
             => LET created == users'[Len(users')]
                IN  \A p \in Plaintexts :
                       checkPassword(created, p) <=> p = req'.password
       /\ \A i \in 1..Len(users) :
             \/ users'[i].password = users[i].password
             \/ /\ Handles("changePassword")
                /\ res'.status = 200
                /\ i = req'._id
                /\ checkPassword(users'[i], req'.newPassword)]_vars

\* a login has saved the account it loaded, and the password the account
\* was registered with still verifies
C14_Witness ==
    /\ req.op = "login"
    /\ res.status = 200
    /\ checkPassword(users[res.user], StrongPassword)

----------------------------------------------------------------------------
(* C15 *)

WeakPasswordMessage ==
    "Password must contain at least 6 characters, including UPPER, LOWERCASE, Special Symbol and numbers"

\* at least 8 characters, with a digit, a lowercase letter, an uppercase
\* letter and a symbol of the fixed set among them
MeetsPasswordPolicy(password) ==
    /\ Len(password) >= 8
    /\ \E i \in 1..Len(password) : password[i] \in Digits
    /\ \E i \in 1..Len(password) : password[i] \in LowerLetters
    /\ \E i \in 1..Len(password) : password[i] \in UpperLetters
    /\ \E i \in 1..Len(password) : password[i] \in PasswordSymbols

\* C15: a registration whose fields are present and whose email has an "@"
\* is refused for its password exactly when the password fails the policy,
\* whatever other characters the password holds.
C15_PasswordPolicy ==
    (/\ req.op = "register"
     /\ Undefined \notin {req.username, req.email, req.fullName, req.password}
     /\ includes(req.email, "@"))
    => (res.message = WeakPasswordMessage
            <=> ~MeetsPasswordPolicy(req.password))

----------------------------------------------------------------------------
(* C16 *)

\* the accounts whose username is the lowercase of the requested one
ChannelsNamed(us, username) ==
    {i \in 1..Len(us) : us[i].username = toLowerCase(username)}

\* the response is the profile of channel i as the viewer sees it
IsProfileOf(r, i, viewer) ==
    /\ r.status = 200
    /\ r.user = i
    /\ r.subscribersCount =
          Cardinality({k \in 1..Len(subscriptions) :
                          subscriptions[k].channel = i})
    /\ r.subscribedToCount =
          Cardinality({k \in 1..Len(subscriptions) :
                          subscriptions[k].subscriber = i})
    /\ r.isSubscribed <=>
          /\ viewer # 0
          /\ \E k \in 1..Len(subscriptions) :
                /\ subscriptions[k].channel = i
                /\ subscriptions[k].subscriber = viewer

\* C16 as stated: a channel profile request answers the counts of the
\* subscription edges to and from the account with the lowercase of the
\* requested username and whether the viewer is among its subscribers,
\* and fails with 404 whenever no account has that username.
C16_ChannelProfile ==
    [][Handles("channelProfile")
       => LET named == ChannelsNamed(users, req'.username)
          IN  IF named = {}
              THEN res'.status = 404
              ELSE \E i \in named : IsProfileOf(res', i, req'.viewer)]_vars

\* C16 amended: as C16, except that a blank username is refused with 400
\* before any lookup, and 404 is the answer for a username that is not
\* blank and that no account has.
C16_ChannelProfileOfNamedChannel ==
    [][Handles("channelProfile")
       => LET named == ChannelsNamed(users, req'.username)
          IN  IF trim(req'.username) = <<>>
              THEN res'.status = 400
              ELSE IF named = {}
              THEN res'.status = 404
              ELSE \E i \in named : IsProfileOf(res', i, req'.viewer)]_vars

\* a viewer has fetched the profile of a channel it subscribes to, which
\* has two subscribers and one subscription of its own
C16_Witness ==
    /\ req.op = "channelProfile"
    /\ res.status = 200
    /\ res.isSubscribed
    /\ res.subscribersCount = 2
    /\ res.subscribedToCount = 1

----------------------------------------------------------------------------
(* C17 *)

\* C17: registration reports the first check that fails, in the order
\* fields, email, password, duplicate, avatar, upload, and creates an
\* account only when all pass; a request without an avatar file fails with
\* the 400 of the avatar check.
C17_ChecksInOrder ==
    [][Handles("register")
       => LET r == req'
          IN  IF Undefined \in {r.fullName, r.email, r.password, r.username}
              THEN /\ res'.status = 400
                   /\ res'.message = "Please provide all required fields"
              ELSE IF ~includes(r.email, "@")
              THEN /\ res'.status = 400
                   /\ res'.message = "Please provide a valid email"
              ELSE IF ~MeetsPasswordPolicy(r.password)
              THEN /\ res'.status = 400
                   /\ res'.message = WeakPasswordMessage
              ELSE IF AccountsNamedBy(users, r) # {}
              THEN res'.status = 409
              ELSE IF "avatar" \notin r.files.fields
              THEN /\ res'.status = 400
                   /\ res'.message = "Please provide an avatar image"
              ELSE \/ /\ res'.status = 500
                      /\ res'.message =
                            "Cloudinary error uploading avatar image"
                      /\ users' = users
                   \/ /\ res'.status = 201
                      /\ Len(users') = Len(users) + 1]_vars

----------------------------------------------------------------------------
(* C18 *)

\* C18: a refresh that presents a token string fails with the kind of its
\* first failing step: a token that does not verify as a refresh token
\* (bad signature, expired) with a 401 or 404, a verified token of no
\* account with the not-found error, a verified token that is not the
\* stored one with the mismatch error; none of them with a 500 or with the
\* missing-token error.
C18_RefreshFailureKinds ==
    [][(Handles("refresh") /\ IsString(incomingRefreshToken(req')))
       => LET token == incomingRefreshToken(req')
              verified == jwtVerify(token, REFRESH_TOKEN_SECRET, now)
          IN  /\ res'.status # 500
              /\ res'.message # MissingTokenMessage
              /\ ~verified.ok => res'.status \in {401, 404}
              /\ (verified.ok /\ findById(users, token.payload._id) = 0)
                    => res'.message = NotFoundTokenMessage
              /\ (/\ verified.ok
                  /\ findById(users, token.payload._id) # 0
                  /\ token # users[token.payload._id].refreshToken)
                    => res'.message = TokenMismatchMessage]_vars

----------------------------------------------------------------------------
(* C19 *)

SessionOps == {"login", "refresh", "logout"}

\* C19: a step of any handler other than login, refresh and logout leaves
\* the refreshToken of every account as it was (an account it creates has
\* none), and a step of login, refresh or logout leaves a stored value as
\* it was, absent, or equal to the whole token the step hands out.
C19_OnlySessionOpsWriteToken ==
    [][Handles(req'.op)
       => /\ req'.op \notin SessionOps
             => /\ \A i \in 1..Len(users) :
                      users'[i].refreshToken = users[i].refreshToken
                /\ \A i \in (Len(users) + 1)..Len(users') :
                      users'[i].refreshToken = UndefinedValue
          /\ req'.op \in SessionOps
             => \A i \in 1..Len(users) :
                   \/ users'[i].refreshToken = users[i].refreshToken
                   \/ users'[i].refreshToken = UndefinedValue
                   \/ users'[i].refreshToken
                         \in PresentedFormsOf(res'.refreshToken)]_vars

\* an account's details have been updated
C19_Witness ==
    /\ req.op = "updateAccount"
    /\ res.status = 200
    /\ users[req.user].email = toLowerCase(req.email)
    /\ users[req.user].email # req.email
    /\ users[req.user].refreshToken = UndefinedValue

----------------------------------------------------------------------------
(* C20 *)

\* C20: refresh requests that present the refresh token of an account get
\* as far as the comparison with the stored token, where nothing keeps two
\* of them apart: a refresh presenting an unexpired refresh token that the
\* server signed for an existing account is answered with a new token pair
\* or with the mismatch error of the comparison, never from an earlier
\* step.
C20_RefreshReachesComparison ==
    [][(/\ Handles("refresh")
        /\ \E i \in 1..Len(users) :
              IsRefreshTokenOf(incomingRefreshToken(req'), i)
        /\ jwtVerify(incomingRefreshToken(req'),
                     REFRESH_TOKEN_SECRET, now).ok)
       => \/ res'.status = 200 /\ res'.accessToken # UndefinedValue
          \/ res'.message = TokenMismatchMessage]_vars

----------------------------------------------------------------------------
(* C21 *)

\* this step parks a handler run at an await instead of answering a request
Suspends ==
    \E slot \in 1..MaxInflight :
        inflight[slot] = Idle /\ inflight'[slot] # Idle

\* C21: a registration that ends in a failure, of whatever kind, leaves the
\* collection exactly as it was; a registration that succeeds appends one
\* account, the one the request names, and leaves the others as they were.
C21_FailedRegistrationWritesNothing ==
    [][(Handles("register") /\ ~Suspends)
       => IF res'.status = 201
          THEN /\ Len(users') = Len(users) + 1
               /\ SubSeq(users', 1, Len(users)) = users
               /\ res'.user = Len(users')
               /\ users'[Len(users')].username = toLowerCase(req'.username)
               /\ users'[Len(users')].email = toLowerCase(req'.email)
          ELSE users' = users]_vars

\* a registration has failed at the avatar upload while the collection
\* holds an account
C21_Witness ==
    /\ req.op = "register"
    /\ res.status = 500
    /\ res.message = "Cloudinary error uploading avatar image"
    /\ Len(users) > 0

====
